---- MODULE Spec2Model ----
(***************************************************************************)
(* Inventory fulfillment core of the distribution back end:                *)
(*   - the dealer-request routes (submit, upload-receipt, verify-payment,  *)
(*     reject-payment, approve, cancel), and                               *)
(*   - the dealer's POST /allocate route (FIFO walk over the dealer's      *)
(*     DealerStock lots with a manual rollback).                           *)
(* Every handler is an async function: it is modelled as a sequence of     *)
(* steps, one per database operation it awaits.  Documents held by a       *)
(* handler are in-memory copies; save() writes the modified paths only.    *)
(***************************************************************************)
EXTENDS Integers, Sequences, FiniteSets, TLC

\* ---------------------------------------------------------------- bounds
MaxRequests == 2      \* DealerRequest documents ever created
MaxStrips == 2        \* largest quantity of a request
MaxStock == 3         \* the stock every product is created with
MaxAllocStrips == 3   \* largest quantity of an allocate call
MaxCalls == 2         \* handlers in flight at the same time
MaxAllocations == 3   \* StockAllocation documents present when an allocate call arrives

Dealers == {"d1", "d2"}
Products == {"p1"}
Salesmen == {"s1", "s2"}
\* User.createdBy of each salesman
SalesmanCreatedBy == [s \in Salesmen |-> IF s = "s1" THEN "d1" ELSE "d2"]
\* the dealers that submit requests (every dealer calls upload-receipt and allocate)
Requesters == {"d1"}

Calls == 1..MaxCalls

VARIABLES
    stock,             \* Product.stock, per product
    requests,          \* DealerRequest collection, in creation order (index = _id)
    dealerStocks,      \* DealerStock collection, in createdAt order (index = _id)
    stockAllocations,  \* StockAllocation collection, a set of records with unique _id
    calls              \* the handlers in flight: position, in-memory documents, response

vars == <<stock, requests, dealerStocks, stockAllocations, calls>>

\* ------------------------------------------------------------ documents
NoRequest ==
    [dealer |-> "", product |-> "", strips |-> 0, status |-> "none",
     paymentStatus |-> "none", receiptImage |-> "null"]

\* new DealerRequest({dealer, product, strips, status: 'pending'}) with schema defaults
NewRequest(d, p, n) ==
    [dealer |-> d, product |-> p, strips |-> n, status |-> "pending",
     paymentStatus |-> "pending", receiptImage |-> "null"]

NoStock ==
    [id |-> 0, dealer |-> "", product |-> "", totalStrips |-> 0,
     allocatedStrips |-> 0, availableStrips |-> 0, sourceRequest |-> 0]

NoResponse == [status |-> 0, error |-> "", available |-> 0, totalAllocated |-> 0]

Respond(code, err) ==
    [status |-> code, error |-> err, available |-> 0, totalAllocated |-> 0]

\* the collections as they are when a call arrives (kept to state what a call changed)
NoSnapshot ==
    [stock |-> [p \in Products |-> 0], requests |-> <<>>, dealerStocks |-> <<>>,
     stockAllocations |-> {}]

IdleCall ==
    [op |-> "idle", pc |-> "idle", user |-> "", id |-> 0,
     request |-> NoRequest, productStock |-> 0, dealerStock |-> NoStock,
     salesman |-> "", product |-> "", strips |-> 0,
     docs |-> <<>>, i |-> 0, remainingToAllocate |-> 0,
     allocations |-> <<>>, updatedStocks |-> <<>>,
     before |-> NoSnapshot, res |-> NoResponse]

\* ------------------------------------------------------------- helpers
\* total strips of a set of StockAllocation records
RECURSIVE SumStrips(_)
SumStrips(S) ==
    IF S = {} THEN 0
    ELSE LET x == CHOOSE y \in S : TRUE IN x.strips + SumStrips(S \ {x})

\* a walk that takes all a lot has, whatever remains to allocate
Min_First(a, b) == a

Min(a, b) == IF a < b THEN a ELSE b

\* DealerRequest.findById
FindRequest(id) == IF id \in 1..Len(requests) THEN requests[id] ELSE NoRequest

Snapshot ==
    [stock |-> stock, requests |-> requests, dealerStocks |-> dealerStocks,
     stockAllocations |-> stockAllocations]

AllIdle == \A c \in Calls : calls[c].op = "idle"

\* a new handler takes the lowest free slot
FreeSlot(c) ==
    /\ calls[c].op = "idle"
    /\ \A d \in Calls : d < c => calls[d].op # "idle"

Set(c, r) == calls' = [calls EXCEPT ![c] = r]

At(c, op, pc) == calls[c].op = op /\ calls[c].pc = pc

Init ==
    /\ stock = [p \in Products |-> MaxStock]
    /\ requests = <<>>
    /\ dealerStocks = <<>>
    /\ stockAllocations = {}
    /\ calls = [c \in Calls |-> IdleCall]

\* the response has been sent: the handler's slot is free again
Return(c) ==
    /\ calls[c].pc = "done"
    /\ Set(c, IdleCall)
    /\ UNCHANGED <<stock, requests, dealerStocks, stockAllocations>>

\* ------------------------------------------------- POST / (create request)
\* the handler without its optimistic stock check
SubmitFind_NoStockCheck(c, d, p, n) ==
    /\ FreeSlot(c)
    /\ LET call == [IdleCall EXCEPT !.before = Snapshot,
                                    !.op = "submit", !.user = d, !.product = p,
                                    !.strips = n]
       IN  IF n < 1
           THEN Set(c, [call EXCEPT !.pc = "done",
                                    !.res = Respond(400, "validation")])
           ELSE IF p \notin Products
           THEN Set(c, [call EXCEPT !.pc = "done",
                                    !.res = Respond(404, "notfound")])
           ELSE Set(c, [call EXCEPT !.pc = "save"])
    /\ UNCHANGED <<stock, requests, dealerStocks, stockAllocations>>

\* validation, Product.findById and the optimistic stock check
SubmitFind(c, d, p, n) ==
    /\ FreeSlot(c)
    /\ LET call == [IdleCall EXCEPT !.before = Snapshot,
                                    !.op = "submit", !.user = d, !.product = p,
                                    !.strips = n]
       IN  IF n < 1
           THEN Set(c, [call EXCEPT !.pc = "done",
                                    !.res = Respond(400, "validation")])
           ELSE IF p \notin Products
           THEN Set(c, [call EXCEPT !.pc = "done",
                                    !.res = Respond(404, "notfound")])
           ELSE IF stock[p] < n
           THEN Set(c, [call EXCEPT !.pc = "done",
                                    !.res = Respond(400, "insufficient")])
           ELSE Set(c, [call EXCEPT !.pc = "save"])
    /\ UNCHANGED <<stock, requests, dealerStocks, stockAllocations>>

\* request.save() of the new document
SubmitSave(c) ==
    /\ At(c, "submit", "save")
    /\ requests' = Append(requests,
                          NewRequest(calls[c].user, calls[c].product, calls[c].strips))
    /\ Set(c, [calls[c] EXCEPT !.pc = "done", !.id = Len(requests) + 1,
                               !.res = Respond(201, "")])
    /\ UNCHANGED <<stock, dealerStocks, stockAllocations>>

\* ------------------------------------------- PUT /:id/upload-receipt
\* the handler refusing a new receipt once the payment was rejected
UploadFind_NoReupload(c, d, id) ==
    /\ FreeSlot(c)
    /\ LET r == FindRequest(id)
           call == [IdleCall EXCEPT !.before = Snapshot,
                                    !.op = "upload", !.user = d, !.id = id,
                                    !.request = r]
       IN  IF r = NoRequest
           THEN Set(c, [call EXCEPT !.pc = "done", !.res = Respond(404, "notfound")])
           ELSE IF r.dealer # d
           THEN Set(c, [call EXCEPT !.pc = "done", !.res = Respond(403, "denied")])
           ELSE IF r.status # "pending" \/ r.paymentStatus = "rejected"
           THEN Set(c, [call EXCEPT !.pc = "done", !.res = Respond(400, "state")])
           ELSE Set(c, [call EXCEPT !.pc = "save"])
    /\ UNCHANGED <<stock, requests, dealerStocks, stockAllocations>>

\* DealerRequest.findById and the checks before the upload
UploadFind(c, d, id) ==
    /\ FreeSlot(c)
    /\ LET r == FindRequest(id)
           call == [IdleCall EXCEPT !.before = Snapshot,
                                    !.op = "upload", !.user = d, !.id = id,
                                    !.request = r]
       IN  IF r = NoRequest
           THEN Set(c, [call EXCEPT !.pc = "done", !.res = Respond(404, "notfound")])
           ELSE IF r.dealer # d
           THEN Set(c, [call EXCEPT !.pc = "done", !.res = Respond(403, "denied")])
           ELSE IF r.status # "pending"
           THEN Set(c, [call EXCEPT !.pc = "done", !.res = Respond(400, "state")])
           ELSE Set(c, [call EXCEPT !.pc = "save"])
    /\ UNCHANGED <<stock, requests, dealerStocks, stockAllocations>>

\* the handler setting paymentStatus without storing the receipt
UploadSave_NoReceipt(c) ==
    /\ At(c, "upload", "save")
    /\ requests' = [requests EXCEPT
          ![calls[c].id].paymentStatus =
              IF calls[c].request.paymentStatus # "paid" THEN "paid" ELSE @]
    /\ Set(c, [calls[c] EXCEPT !.pc = "done", !.res = Respond(200, ""),
                               !.request.paymentStatus = "paid"])
    /\ UNCHANGED <<stock, dealerStocks, stockAllocations>>

\* request.receiptImage = url; request.paymentStatus = 'paid'; request.save()
UploadSave(c) ==
    /\ At(c, "upload", "save")
    /\ requests' = [requests EXCEPT
          ![calls[c].id].receiptImage = "url",
          \* save() writes a path only when its in-memory value was changed
          ![calls[c].id].paymentStatus =
              IF calls[c].request.paymentStatus # "paid" THEN "paid" ELSE @]
    /\ Set(c, [calls[c] EXCEPT !.pc = "done", !.res = Respond(200, ""),
                               !.request.receiptImage = "url",
                               !.request.paymentStatus = "paid"])
    /\ UNCHANGED <<stock, dealerStocks, stockAllocations>>

\* ------------------------------------------- PUT /:id/verify-payment
\* the handler without its check of paymentStatus
VerifyFind_NoCheck(c, id) ==
    /\ FreeSlot(c)
    /\ LET r == FindRequest(id)
           call == [IdleCall EXCEPT !.before = Snapshot,
                                    !.op = "verify", !.user = "admin", !.id = id,
                                    !.request = r]
       IN  IF r = NoRequest
           THEN Set(c, [call EXCEPT !.pc = "done", !.res = Respond(404, "notfound")])
           ELSE Set(c, [call EXCEPT !.pc = "save"])
    /\ UNCHANGED <<stock, requests, dealerStocks, stockAllocations>>

\* DealerRequest.findById and the check of paymentStatus
VerifyFind(c, id) ==
    /\ FreeSlot(c)
    /\ LET r == FindRequest(id)
           call == [IdleCall EXCEPT !.before = Snapshot,
                                    !.op = "verify", !.user = "admin", !.id = id,
                                    !.request = r]
       IN  IF r = NoRequest
           THEN Set(c, [call EXCEPT !.pc = "done", !.res = Respond(404, "notfound")])
           ELSE IF r.paymentStatus # "paid"
           THEN Set(c, [call EXCEPT !.pc = "done", !.res = Respond(400, "state")])
           ELSE Set(c, [call EXCEPT !.pc = "save"])
    /\ UNCHANGED <<stock, requests, dealerStocks, stockAllocations>>

VerifySave(c) ==
    /\ At(c, "verify", "save")
    /\ requests' = [requests EXCEPT ![calls[c].id].paymentStatus = "verified"]
    /\ Set(c, [calls[c] EXCEPT !.pc = "done", !.res = Respond(200, ""),
                               !.request.paymentStatus = "verified"])
    /\ UNCHANGED <<stock, dealerStocks, stockAllocations>>

\* ------------------------------------------- PUT /:id/reject-payment
RejectFind(c, id) ==
    /\ FreeSlot(c)
    /\ LET r == FindRequest(id)
           call == [IdleCall EXCEPT !.before = Snapshot,
                                    !.op = "reject", !.user = "admin", !.id = id,
                                    !.request = r]
       IN  IF r = NoRequest
           THEN Set(c, [call EXCEPT !.pc = "done", !.res = Respond(404, "notfound")])
           ELSE IF r.paymentStatus # "paid"
           THEN Set(c, [call EXCEPT !.pc = "done", !.res = Respond(400, "state")])
           ELSE Set(c, [call EXCEPT !.pc = "save"])
    /\ UNCHANGED <<stock, requests, dealerStocks, stockAllocations>>

\* the handler rejecting the payment without clearing the receipt
RejectSave_KeepsReceipt(c) ==
    /\ At(c, "reject", "save")
    /\ requests' = [requests EXCEPT ![calls[c].id].paymentStatus = "rejected"]
    /\ Set(c, [calls[c] EXCEPT !.pc = "done", !.res = Respond(200, ""),
                               !.request.paymentStatus = "rejected"])
    /\ UNCHANGED <<stock, dealerStocks, stockAllocations>>

\* request.paymentStatus = 'rejected'; request.receiptImage = null; request.save()
RejectSave(c) ==
    /\ At(c, "reject", "save")
    /\ requests' = [requests EXCEPT
          ![calls[c].id].paymentStatus = "rejected",
          \* save() writes a path only when its in-memory value was changed
          ![calls[c].id].receiptImage =
              IF calls[c].request.receiptImage # "null" THEN "null" ELSE @]
    /\ Set(c, [calls[c] EXCEPT !.pc = "done", !.res = Respond(200, ""),
                               !.request.paymentStatus = "rejected",
                               !.request.receiptImage = "null"])
    /\ UNCHANGED <<stock, dealerStocks, stockAllocations>>

\* ------------------------------------------------- PUT /:id/cancel
\* the handler without its check of status
CancelFind_NoCheck(c, id) ==
    /\ FreeSlot(c)
    /\ LET r == FindRequest(id)
           call == [IdleCall EXCEPT !.before = Snapshot,
                                    !.op = "cancel", !.user = "admin", !.id = id,
                                    !.request = r]
       IN  IF r = NoRequest
           THEN Set(c, [call EXCEPT !.pc = "done", !.res = Respond(404, "notfound")])
           ELSE Set(c, [call EXCEPT !.pc = "save"])
    /\ UNCHANGED <<stock, requests, dealerStocks, stockAllocations>>

\* DealerRequest.findById and the check of status
CancelFind(c, id) ==
    /\ FreeSlot(c)
    /\ LET r == FindRequest(id)
           call == [IdleCall EXCEPT !.before = Snapshot,
                                    !.op = "cancel", !.user = "admin", !.id = id,
                                    !.request = r]
       IN  IF r = NoRequest
           THEN Set(c, [call EXCEPT !.pc = "done", !.res = Respond(404, "notfound")])
           ELSE IF r.status # "pending"
           THEN Set(c, [call EXCEPT !.pc = "done", !.res = Respond(400, "state")])
           ELSE Set(c, [call EXCEPT !.pc = "save"])
    /\ UNCHANGED <<stock, requests, dealerStocks, stockAllocations>>

CancelSave(c) ==
    /\ At(c, "cancel", "save")
    /\ requests' = [requests EXCEPT ![calls[c].id].status = "cancelled"]
    /\ Set(c, [calls[c] EXCEPT !.pc = "done", !.res = Respond(200, ""),
                               !.request.status = "cancelled"])
    /\ UNCHANGED <<stock, dealerStocks, stockAllocations>>

\* ------------------------------------------------- PUT /:id/approve
\* DealerRequest.findById(id)
ApproveFind(c, id) ==
    /\ FreeSlot(c)
    /\ LET r == FindRequest(id)
           call == [IdleCall EXCEPT !.before = Snapshot,
                                    !.op = "approve", !.user = "admin", !.id = id,
                                    !.request = r]
       IN  IF r = NoRequest
           THEN Set(c, [call EXCEPT !.pc = "done", !.res = Respond(404, "notfound")])
           ELSE Set(c, [call EXCEPT !.pc = "populate"])
    /\ UNCHANGED <<stock, requests, dealerStocks, stockAllocations>>

\* the handler without its stock check
ApprovePopulate_NoStockCheck(c) ==
    /\ At(c, "approve", "populate")
    /\ LET r == calls[c].request
           s == stock[r.product]
           call == [calls[c] EXCEPT !.productStock = s]
       IN  IF r.status # "pending"
           THEN Set(c, [call EXCEPT !.pc = "done", !.res = Respond(400, "state")])
           ELSE IF r.paymentStatus # "verified"
           THEN Set(c, [call EXCEPT !.pc = "done", !.res = Respond(400, "payment")])
           ELSE Set(c, [call EXCEPT !.pc = "saveProduct"])
    /\ UNCHANGED <<stock, requests, dealerStocks, stockAllocations>>

\* the handler without its payment check
ApprovePopulate_NoPaymentCheck(c) ==
    /\ At(c, "approve", "populate")
    /\ LET r == calls[c].request
           s == stock[r.product]
           call == [calls[c] EXCEPT !.productStock = s]
       IN  IF r.status # "pending"
           THEN Set(c, [call EXCEPT !.pc = "done", !.res = Respond(400, "state")])
           ELSE IF s < r.strips
           THEN Set(c, [call EXCEPT !.pc = "done",
                                    !.res = Respond(400, "insufficient")])
           ELSE Set(c, [call EXCEPT !.pc = "saveProduct"])
    /\ UNCHANGED <<stock, requests, dealerStocks, stockAllocations>>

\* .populate('product'), then the checks on the in-memory documents
ApprovePopulate(c) ==
    /\ At(c, "approve", "populate")
    /\ LET r == calls[c].request
           s == stock[r.product]
           call == [calls[c] EXCEPT !.productStock = s]
       IN  IF r.status # "pending"
           THEN Set(c, [call EXCEPT !.pc = "done", !.res = Respond(400, "state")])
           ELSE IF r.paymentStatus # "verified"
           THEN Set(c, [call EXCEPT !.pc = "done", !.res = Respond(400, "payment")])
           ELSE IF s < r.strips
           THEN Set(c, [call EXCEPT !.pc = "done",
                                    !.res = Respond(400, "insufficient")])
           ELSE Set(c, [call EXCEPT !.pc = "saveProduct"])
    /\ UNCHANGED <<stock, requests, dealerStocks, stockAllocations>>

\* the handler decrementing the in-memory product without saving it
ApproveSaveProduct_NoSave(c) ==
    /\ At(c, "approve", "saveProduct")
    /\ Set(c, [calls[c] EXCEPT !.productStock = @ - calls[c].request.strips,
                               !.pc = "saveRequest"])
    /\ UNCHANGED <<stock, requests, dealerStocks, stockAllocations>>

\* request.product.stock -= request.strips; request.product.save()
ApproveSaveProduct(c) ==
    /\ At(c, "approve", "saveProduct")
    /\ LET r == calls[c].request
           s == calls[c].productStock - r.strips
       IN  /\ stock' = [stock EXCEPT ![r.product] = s]
           /\ Set(c, [calls[c] EXCEPT !.productStock = s, !.pc = "saveRequest"])
    /\ UNCHANGED <<requests, dealerStocks, stockAllocations>>

\* request.status = 'approved'; request.save()
ApproveSaveRequest(c) ==
    /\ At(c, "approve", "saveRequest")
    /\ requests' = [requests EXCEPT ![calls[c].id].status = "approved"]
    /\ Set(c, [calls[c] EXCEPT !.request.status = "approved", !.pc = "findStock"])
    /\ UNCHANGED <<stock, dealerStocks, stockAllocations>>

\* DealerStock.findOne({dealer, product, sourceRequest})
FindStockOf(d, p, id) ==
    LET S == {k \in 1..Len(dealerStocks) :
                /\ dealerStocks[k].dealer = d
                /\ dealerStocks[k].product = p
                /\ dealerStocks[k].sourceRequest = id}
    IN  IF S = {} THEN NoStock
        ELSE dealerStocks[CHOOSE k \in S : \A j \in S : k <= j]

ApproveFindStock(c) ==
    /\ At(c, "approve", "findStock")
    /\ Set(c, [calls[c] EXCEPT
          !.dealerStock = FindStockOf(calls[c].request.dealer,
                                      calls[c].request.product, calls[c].id),
          !.pc = "saveStock"])
    /\ UNCHANGED <<stock, requests, dealerStocks, stockAllocations>>

\* new DealerStock({... totalStrips: strips, allocatedStrips: 0, availableStrips: strips})
NewStock(id, d, p, n, src) ==
    [id |-> id, dealer |-> d, product |-> p, totalStrips |-> n,
     allocatedStrips |-> 0, availableStrips |-> n, sourceRequest |-> src]

\* dealerStockSchema.pre('save'): recompute availableStrips, refuse a negative one
PreSave(doc) ==
    [doc EXCEPT !.availableStrips = doc.totalStrips - doc.allocatedStrips]

\* a schema without the min validators and the hook's check
SaveAccepts_NoValidators(doc) == TRUE

\* a schema without the min validator of allocatedStrips
SaveAccepts_NoAllocatedMin(doc) ==
    /\ doc.totalStrips >= 0
    /\ doc.availableStrips >= 0
    /\ doc.totalStrips - doc.allocatedStrips >= 0

\* the schema's min validators and the pre-save hook let the document through
SaveAccepts(doc) ==
    /\ doc.totalStrips >= 0
    /\ doc.allocatedStrips >= 0
    /\ doc.availableStrips >= 0
    /\ PreSave(doc).availableStrips >= 0

\* the update branch or the create branch, then the response
ApproveSaveStock(c) ==
    /\ At(c, "approve", "saveStock")
    /\ LET r == calls[c].request
           ds == calls[c].dealerStock
       IN  IF ds # NoStock
           THEN LET upd == PreSave([ds EXCEPT
                               !.totalStrips = ds.totalStrips + r.strips,
                               !.availableStrips =
                                   ds.totalStrips + r.strips - ds.allocatedStrips])
                IN  /\ dealerStocks' = [dealerStocks EXCEPT
                          ![ds.id].totalStrips = upd.totalStrips,
                          ![ds.id].availableStrips = upd.availableStrips]
                    /\ Set(c, [calls[c] EXCEPT !.dealerStock = upd, !.pc = "done",
                                               !.res = Respond(200, "")])
           ELSE LET new == PreSave(NewStock(Len(dealerStocks) + 1, r.dealer,
                                           r.product, r.strips, calls[c].id))
                IN  /\ dealerStocks' = Append(dealerStocks, new)
                    /\ Set(c, [calls[c] EXCEPT !.dealerStock = new, !.pc = "done",
                                               !.res = Respond(200, "")])
    /\ UNCHANGED <<stock, requests, stockAllocations>>

\* an awaited operation of the approve handler throws (or the process stops at
\* the await): the remaining steps never run; the catch responds 500
ApproveFail(c) ==
    /\ calls[c].op = "approve"
    /\ calls[c].pc \in {"populate", "saveProduct", "saveRequest", "findStock",
                        "saveStock"}
    /\ Set(c, [calls[c] EXCEPT !.pc = "done", !.res = Respond(500, "exception")])
    /\ UNCHANGED <<stock, requests, dealerStocks, stockAllocations>>

\* ------------------------------------------------- POST /allocate
\* the find without its sort, returning the newest lot first
RECURSIVE StocksOf_NewestFirst(_, _, _)
StocksOf_NewestFirst(d, p, k) ==
    IF k > Len(dealerStocks) THEN <<>>
    ELSE IF dealerStocks[k].dealer = d /\ dealerStocks[k].product = p
         THEN StocksOf_NewestFirst(d, p, k + 1) \o <<dealerStocks[k]>>
         ELSE StocksOf_NewestFirst(d, p, k + 1)

\* a find by product only, returning the lots of every dealer
RECURSIVE StocksOf_AnyDealer(_, _, _)
StocksOf_AnyDealer(d, p, k) ==
    IF k > Len(dealerStocks) THEN <<>>
    ELSE IF dealerStocks[k].product = p
         THEN <<dealerStocks[k]>> \o StocksOf_AnyDealer(d, p, k + 1)
         ELSE StocksOf_AnyDealer(d, p, k + 1)

\* DealerStock.find({dealer, product}).sort({createdAt: 1}): in-memory documents
RECURSIVE StocksOf(_, _, _)
StocksOf(d, p, k) ==
    IF k > Len(dealerStocks) THEN <<>>
    ELSE IF dealerStocks[k].dealer = d /\ dealerStocks[k].product = p
         THEN <<dealerStocks[k]>> \o StocksOf(d, p, k + 1)
         ELSE StocksOf(d, p, k + 1)

\* ObjectIds are unique: a new _id is one no document and no handler holds
UsedIds ==
    {a.id : a \in stockAllocations}
        \cup UNION {{calls[c].allocations[k] : k \in 1..Len(calls[c].allocations)} :
                       c \in Calls}

FreshId == CHOOSE n \in 1..(Cardinality(UsedIds) + 1) :
              /\ n \notin UsedIds
              /\ \A m \in 1..(n - 1) : m \in UsedIds

\* the handler without the check that the salesman was created by the dealer
AllocateFind_NoSalesmanCheck(c, d, sm, p, n) ==
    /\ FreeSlot(c)
    /\ LET call == [IdleCall EXCEPT !.before = Snapshot,
                                    !.op = "allocate", !.user = d, !.salesman = sm,
                                    !.product = p, !.strips = n]
       IN  IF n < 1
           THEN Set(c, [call EXCEPT !.pc = "done", !.res = Respond(400, "validation")])
           ELSE IF p \notin Products
           THEN Set(c, [call EXCEPT !.pc = "done", !.res = Respond(404, "notfound")])
           ELSE Set(c, [call EXCEPT !.docs = StocksOf(d, p, 1),
                                    !.remainingToAllocate = n,
                                    !.i = 1, !.pc = "loop"])
    /\ UNCHANGED <<stock, requests, dealerStocks, stockAllocations>>

\* validation, User.findOne (salesman), Product.findById, DealerStock.find
AllocateFind(c, d, sm, p, n) ==
    /\ FreeSlot(c)
    /\ LET call == [IdleCall EXCEPT !.before = Snapshot,
                                    !.op = "allocate", !.user = d, !.salesman = sm,
                                    !.product = p, !.strips = n]
       IN  IF n < 1
           THEN Set(c, [call EXCEPT !.pc = "done", !.res = Respond(400, "validation")])
           ELSE IF SalesmanCreatedBy[sm] # d
           THEN Set(c, [call EXCEPT !.pc = "done", !.res = Respond(404, "salesman")])
           ELSE IF p \notin Products
           THEN Set(c, [call EXCEPT !.pc = "done", !.res = Respond(404, "notfound")])
           ELSE Set(c, [call EXCEPT !.docs = StocksOf(d, p, 1),
                                    !.remainingToAllocate = n,
                                    !.i = 1, !.pc = "loop"])
    /\ UNCHANGED <<stock, requests, dealerStocks, stockAllocations>>

\* the next document of the walk with availableStrips > 0, from position i on
RECURSIVE NextAvailable(_, _)
NextAvailable(docs, i) ==
    IF i > Len(docs) THEN i
    ELSE IF docs[i].availableStrips > 0 THEN i
    ELSE NextAvailable(docs, i + 1)

\* res.status(201).json({... data: {allocation: allocations[0], totalAllocated: strips}})
Allocated(call) ==
    [status |-> 201, error |-> "", available |-> 0, totalAllocated |-> call.strips]

\* the loop head; new StockAllocation({... strips: toAllocate}).save(), or the
\* end of the walk: the success response, or on to the rollback
AllocateLoop(c) ==
    /\ At(c, "allocate", "loop")
    /\ LET call == calls[c]
           k == NextAvailable(call.docs, call.i)
       IN  IF call.remainingToAllocate <= 0
           THEN /\ Set(c, [call EXCEPT !.pc = "done", !.res = Allocated(call)])
                /\ UNCHANGED stockAllocations
           ELSE IF k > Len(call.docs)
           THEN /\ Set(c, [call EXCEPT !.i = k, !.pc = "rollbackDelete"])
                /\ UNCHANGED stockAllocations
           ELSE LET toAllocate == Min(call.docs[k].availableStrips,
                                      call.remainingToAllocate)
                    allocation == [id |-> FreshId, dealer |-> call.user,
                                   salesman |-> call.salesman,
                                   product |-> call.product,
                                   strips |-> toAllocate,
                                   dealerStock |-> call.docs[k].id]
                IN  /\ stockAllocations' = stockAllocations \cup {allocation}
                    /\ Set(c, [call EXCEPT
                          !.allocations = Append(@, allocation.id),
                          !.i = k, !.pc = "saveStock"])
    /\ UNCHANGED <<stock, requests, dealerStocks>>

\* stock.allocatedStrips += toAllocate; stock.save(); remainingToAllocate -= toAllocate
AllocateSaveStock(c) ==
    /\ At(c, "allocate", "saveStock")
    /\ LET call == calls[c]
           doc == call.docs[call.i]
           toAllocate == Min(doc.availableStrips, call.remainingToAllocate)
           set == [doc EXCEPT !.allocatedStrips = doc.allocatedStrips + toAllocate,
                              !.availableStrips =
                                  doc.totalStrips - (doc.allocatedStrips + toAllocate)]
       IN  IF ~SaveAccepts(set)
           THEN /\ Set(c, [call EXCEPT !.docs[call.i] = set, !.pc = "done",
                                       !.res = Respond(500, "exception")])
                /\ UNCHANGED dealerStocks
           ELSE /\ dealerStocks' = [dealerStocks EXCEPT
                      ![doc.id].allocatedStrips = PreSave(set).allocatedStrips,
                      ![doc.id].availableStrips = PreSave(set).availableStrips]
                /\ Set(c, [call EXCEPT
                      !.docs[call.i] = PreSave(set),
                      !.updatedStocks = Append(@, call.i),
                      !.remainingToAllocate = @ - toAllocate,
                      !.i = call.i + 1, !.pc = "loop"])
    /\ UNCHANGED <<stock, requests, stockAllocations>>

\* "Insufficient stock. Available: ${strips - remainingToAllocate} strips"
Insufficient(call) ==
    [status |-> 400, error |-> "insufficient",
     available |-> call.strips - call.remainingToAllocate, totalAllocated |-> 0]

\* a rollback that also returns the strips taken to the product's stock
AllocateRollbackDelete_Restock(c) ==
    /\ At(c, "allocate", "rollbackDelete")
    /\ LET call == calls[c]
           ids == {call.allocations[k] : k \in 1..Len(call.allocations)}
       IN  /\ stockAllocations' = {a \in stockAllocations : a.id \notin ids}
           /\ stock' = [stock EXCEPT ![call.product] =
                           @ + call.strips - call.remainingToAllocate]
           /\ IF call.updatedStocks = <<>>
              THEN Set(c, [call EXCEPT !.pc = "done", !.res = Insufficient(call)])
              ELSE Set(c, [call EXCEPT !.i = 1, !.pc = "rollbackSave"])
    /\ UNCHANGED <<requests, dealerStocks>>

\* StockAllocation.deleteMany({_id: {$in: allocations.map(a => a._id)}})
AllocateRollbackDelete(c) ==
    /\ At(c, "allocate", "rollbackDelete")
    /\ LET call == calls[c]
           ids == {call.allocations[k] : k \in 1..Len(call.allocations)}
       IN  /\ stockAllocations' = {a \in stockAllocations : a.id \notin ids}
           /\ IF call.updatedStocks = <<>>
              THEN Set(c, [call EXCEPT !.pc = "done", !.res = Insufficient(call)])
              ELSE Set(c, [call EXCEPT !.i = 1, !.pc = "rollbackSave"])
    /\ UNCHANGED <<stock, requests, dealerStocks>>

\* what the rollback loop subtracts from a touched document
RollbackAmount(call, k) == call.strips - call.remainingToAllocate

\* for (const stock of updatedStocks) { stock.allocatedStrips -= ...; stock.save() }
AllocateRollbackSave(c) ==
    /\ At(c, "allocate", "rollbackSave")
    /\ LET call == calls[c]
           k == call.updatedStocks[call.i]
           doc == call.docs[k]
           back == doc.allocatedStrips - RollbackAmount(call, k)
           set == [doc EXCEPT !.allocatedStrips = back,
                              !.availableStrips = doc.totalStrips - back]
       IN  IF ~SaveAccepts(set)
           THEN /\ Set(c, [call EXCEPT !.docs[k] = set, !.pc = "done",
                                       !.res = Respond(500, "exception")])
                /\ UNCHANGED dealerStocks
           ELSE /\ dealerStocks' = [dealerStocks EXCEPT
                      ![doc.id].allocatedStrips = PreSave(set).allocatedStrips,
                      ![doc.id].availableStrips = PreSave(set).availableStrips]
                /\ IF call.i = Len(call.updatedStocks)
                   THEN Set(c, [call EXCEPT !.docs[k] = PreSave(set), !.pc = "done",
                                            !.res = Insufficient(call)])
                   ELSE Set(c, [call EXCEPT !.docs[k] = PreSave(set),
                                            !.i = call.i + 1])
    /\ UNCHANGED <<stock, requests, stockAllocations>>

\* ---------------------------------------------------------- behaviours
\* a call of a dealer-request route arrives: the first step of its handler
RequestBegin(c) ==
    \/ \E d \in Requesters, p \in Products \cup {"p0"}, n \in 0..MaxStrips :
          /\ Len(requests) < MaxRequests
          /\ SubmitFind(c, d, p, n)
    \/ \E d \in Dealers, id \in 1..MaxRequests : UploadFind(c, d, id)
    \/ \E id \in 1..MaxRequests : VerifyFind(c, id)
    \/ \E id \in 1..MaxRequests : RejectFind(c, id)
    \/ \E id \in 1..MaxRequests : ApproveFind(c, id)
    \/ \E id \in 1..MaxRequests : CancelFind(c, id)

\* a call of POST /allocate by one of the dealers DS arrives
AllocateBegin(c, DS) ==
    /\ Cardinality(stockAllocations) < MaxAllocations
    /\ \E d \in DS, sm \in Salesmen, p \in Products \cup {"p0"},
          n \in 0..MaxAllocStrips : AllocateFind(c, d, sm, p, n)

\* a dealer-request handler in flight resumes after an await
RequestStep(c) ==
    \/ SubmitSave(c)
    \/ UploadSave(c)
    \/ VerifySave(c)
    \/ RejectSave(c)
    \/ CancelSave(c)
    \/ ApprovePopulate(c)
    \/ ApproveSaveProduct(c)
    \/ ApproveSaveRequest(c)
    \/ ApproveFindStock(c)
    \/ ApproveSaveStock(c)

\* an allocate handler in flight resumes after an await
AllocateStep(c) ==
    \/ AllocateLoop(c)
    \/ AllocateSaveStock(c)
    \/ AllocateRollbackDelete(c)
    \/ AllocateRollbackSave(c)

Step(c) == RequestStep(c) \/ AllocateStep(c) \/ Return(c)

NoAllocate == \A c \in Calls : calls[c].op # "allocate"

\* handlers run one after the other: a call arrives when none is in flight
Next ==
    \E c \in Calls :
        \/ AllIdle /\ RequestBegin(c)
        \/ AllIdle /\ AllocateBegin(c, Dealers)
        \/ Step(c)

Spec == Init /\ [][Next]_vars

\* an approve call arrives while another dealer-request handler is in flight, and
\* the two interleave at their awaits (every other call arrives when none is in flight)
ApproveRaceNext ==
    \E c \in Calls :
        \/ AllIdle /\ RequestBegin(c)
        \/ NoAllocate /\ \E id \in 1..MaxRequests : ApproveFind(c, id)
        \/ AllIdle /\ AllocateBegin(c, Dealers)
        \/ Step(c)

ApproveRaceSpec == Init /\ [][ApproveRaceNext]_vars

\* the quantities of the requests approved so far
ApprovedQuantities == UNION {[1..k -> 1..MaxStrips] : k \in 0..MaxRequests}

RECURSIVE SumTo(_, _)
SumTo(qs, k) == IF k = 0 THEN 0 ELSE qs[k] + SumTo(qs, k - 1)

\* AllocateRaceInit has been reached: d1's requests are all approved, each with
\* its lot, and nothing has been allocated yet
ApprovalsDone ==
    /\ AllIdle
    /\ stockAllocations = {}
    /\ Len(dealerStocks) = Len(requests)
    /\ \A j \in 1..Len(requests) :
          /\ requests[j] = [NewRequest("d1", "p1", requests[j].strips) EXCEPT
                               !.status = "approved",
                               !.paymentStatus = "verified",
                               !.receiptImage = "url"]
          /\ dealerStocks[j] = NewStock(j, "d1", "p1", requests[j].strips, j)

\* the states Spec reaches when dealer d1 has had some requests approved one after
\* the other (submit, upload-receipt, verify-payment, approve) and nothing has
\* been allocated yet
AllocateRaceInit ==
    /\ \E qs \in ApprovedQuantities :
          /\ SumTo(qs, Len(qs)) <= MaxStock
          /\ stock = [p \in Products |-> MaxStock - SumTo(qs, Len(qs))]
          /\ requests = [j \in 1..Len(qs) |->
                           [NewRequest("d1", "p1", qs[j]) EXCEPT
                               !.status = "approved",
                               !.paymentStatus = "verified",
                               !.receiptImage = "url"]]
          /\ dealerStocks = [j \in 1..Len(qs) |-> NewStock(j, "d1", "p1", qs[j], j)]
    /\ stockAllocations = {}
    /\ calls = [c \in Calls |-> IdleCall]

\* allocate calls of the dealer holding the lots arrive while another allocate
\* handler is in flight, and interleave at their awaits
AllocateRaceNext ==
    \E c \in Calls :
        \/ AllocateBegin(c, Requesters)
        \/ AllocateStep(c)
        \/ Return(c)

AllocateRaceSpec == AllocateRaceInit /\ [][AllocateRaceNext]_vars

\* the dealers with an allocate handler between two awaits
BusyDealers ==
    {calls[c].user : c \in {e \in Calls : calls[e].pc \notin {"idle", "done"}}}

\* the states reached when every dealer has had some requests approved, one
\* after the other, and nothing has been allocated yet
DisjointInit ==
    /\ \E qs \in ApprovedQuantities :
          \E ow \in [1..Len(qs) -> Dealers] :
              /\ {ow[j] : j \in 1..Len(qs)} = Dealers
              /\ SumTo(qs, Len(qs)) <= MaxStock
              /\ stock = [p \in Products |-> MaxStock - SumTo(qs, Len(qs))]
              /\ requests = [j \in 1..Len(qs) |->
                               [NewRequest(ow[j], "p1", qs[j]) EXCEPT
                                   !.status = "approved",
                                   !.paymentStatus = "verified",
                                   !.receiptImage = "url"]]
              /\ dealerStocks = [j \in 1..Len(qs) |->
                                   NewStock(j, ow[j], "p1", qs[j], j)]
    /\ stockAllocations = {}
    /\ calls = [c \in Calls |-> IdleCall]

\* the dealers none of whose strips is recorded as allocated
FreshDealers == {d \in Dealers : \A a \in stockAllocations : a.dealer # d}

\* every response produced so far has been delivered
NoneDone == \A c \in Calls : calls[c].pc # "done"

\* allocate calls of different dealers interleave at their awaits: a call of a
\* dealer arrives while no other handler of that dealer is in flight (and no
\* record of the dealer exists yet), after the earlier responses were delivered
DisjointNext ==
    \E c \in Calls :
        \/ NoneDone /\ AllocateBegin(c, FreshDealers \ BusyDealers)
        \/ AllocateStep(c)
        \/ Return(c)

DisjointSpec == DisjointInit /\ [][DisjointNext]_vars

\* handlers run one after the other, and an awaited operation of an approve
\* handler may throw
FailNext ==
    \E c \in Calls :
        \/ AllIdle /\ RequestBegin(c)
        \/ AllIdle /\ AllocateBegin(c, Dealers)
        \/ Step(c)
        \/ ApproveFail(c)

FailSpec == Init /\ [][FailNext]_vars

\* no handler is between two awaits: each has sent its response or none arrived
Quiet == \A c \in Calls : calls[c].pc \in {"idle", "done"}

\* the state Spec reaches when dealer d1 has submitted one request and uploaded
\* its receipt: a pending request with paymentStatus paid
RoundTripInit ==
    /\ stock = [p \in Products |-> MaxStock]
    /\ \E q \in 1..MaxStrips :
          requests = <<[NewRequest("d1", "p1", q) EXCEPT
                           !.paymentStatus = "paid", !.receiptImage = "url"]>>
    /\ dealerStocks = <<>>
    /\ stockAllocations = {}
    /\ calls = [c \in Calls |-> IdleCall]

\* reject-payment, upload-receipt, verify-payment and approve calls run one after
\* the other: a call arrives when every handler before it has sent its response
RoundTripNext ==
    \E c \in Calls :
        \/ Quiet /\ \E id \in 1..MaxRequests : RejectFind(c, id)
        \/ Quiet /\ \E d \in Dealers, id \in 1..MaxRequests : UploadFind(c, d, id)
        \/ Quiet /\ \E id \in 1..MaxRequests : VerifyFind(c, id)
        \/ Quiet /\ \E id \in 1..MaxRequests : ApproveFind(c, id)
        \/ RejectSave(c)
        \/ UploadSave(c)
        \/ VerifySave(c)
        \/ ApprovePopulate(c)
        \/ ApproveSaveProduct(c)
        \/ ApproveSaveRequest(c)
        \/ ApproveFindStock(c)
        \/ ApproveSaveStock(c)
        \/ Return(c)

RoundTripSpec == RoundTripInit /\ [][RoundTripNext]_vars

\* ------------------------------------------- the reject / re-upload cycle
\* reject-payment and upload-receipt calls run one after the other on the one
\* pending request
CycleNext ==
    \E c \in Calls :
        \/ Quiet /\ \E id \in 1..MaxRequests : RejectFind(c, id)
        \/ Quiet /\ \E d \in Dealers, id \in 1..MaxRequests : UploadFind(c, d, id)
        \/ RejectSave(c)
        \/ UploadSave(c)
        \/ Return(c)

\* the admin rejects the payment of request 1 while it is paid
RejectPaid ==
    \E c \in Calls :
        /\ Quiet
        /\ FindRequest(1) # NoRequest
        /\ FindRequest(1).paymentStatus = "paid"
        /\ RejectFind(c, 1)

\* the owner uploads a receipt for request 1 while its payment is rejected
Reupload ==
    \E c \in Calls :
        /\ Quiet
        /\ FindRequest(1) # NoRequest
        /\ FindRequest(1).paymentStatus = "rejected"
        /\ UploadFind(c, FindRequest(1).dealer, 1)

\* a handler that has started runs to its response and the response is
\* delivered; the admin keeps rejecting and the dealer keeps uploading
CycleFairness ==
    /\ \A c \in Calls : WF_vars(RejectSave(c))
    /\ \A c \in Calls : WF_vars(UploadSave(c))
    /\ \A c \in Calls : WF_vars(Return(c))
    /\ SF_vars(RejectPaid)
    /\ SF_vars(Reupload)

CycleSpec == RoundTripInit /\ [][CycleNext]_vars /\ CycleFairness

\* ============================================================ properties
AllocationsOf(lotId) == {a \in stockAllocations : a.dealerStock = lotId}

\* the total availableStrips of a list of DealerStock documents
RECURSIVE SumAvailable(_)
SumAvailable(docs) ==
    IF docs = <<>> THEN 0
    ELSE Head(docs).availableStrips + SumAvailable(Tail(docs))

\* the dealer's lots for the product of an allocate call, as they were when it arrived
RECURSIVE LotsBefore(_, _)
LotsBefore(call, k) ==
    IF k > Len(call.before.dealerStocks) THEN <<>>
    ELSE IF /\ call.before.dealerStocks[k].dealer = call.user
            /\ call.before.dealerStocks[k].product = call.product
         THEN <<call.before.dealerStocks[k]>> \o LotsBefore(call, k + 1)
         ELSE LotsBefore(call, k + 1)

\* an allocate call that passed validation and has sent its response
AllocateDone(c) ==
    /\ At(c, "allocate", "done")
    /\ calls[c].res.error \notin {"validation", "salesman", "notfound"}

\* an allocate call that could not be fully satisfied and has sent its response
AllocateShort(c) ==
    /\ AllocateDone(c)
    /\ SumAvailable(LotsBefore(calls[c], 1)) < calls[c].strips

\* C1: in every reachable state of sequential runs of approve and allocate
\* (successful, failed or rolled back), every persisted lot has
\* availableStrips + allocatedStrips = totalStrips, both counts >= 0.
C1_LotInvariant ==
    \A k \in 1..Len(dealerStocks) :
        /\ dealerStocks[k].availableStrips + dealerStocks[k].allocatedStrips
              = dealerStocks[k].totalStrips
        /\ dealerStocks[k].availableStrips >= 0
        /\ dealerStocks[k].allocatedStrips >= 0

\* an allocate call walked two lots, rolled back and has ended
C1_Witness ==
    \E c \in Calls :
        /\ AllocateShort(c)
        /\ Len(calls[c].updatedStocks) >= 2

\* C2: whenever no allocate call is in progress, for every lot the strips of the
\* StockAllocation records referencing it sum to the lot's allocatedStrips.
C2_AllocationSum ==
    (\A c \in Calls : calls[c].op = "allocate" => calls[c].pc = "done")
        => \A k \in 1..Len(dealerStocks) :
              SumStrips(AllocationsOf(k)) = dealerStocks[k].allocatedStrips

\* C3: after an allocate call that could not be fully satisfied has returned, no
\* record it created remains and every lot has the counts it had before the call.
C3_RollbackRestores ==
    \A c \in Calls :
        AllocateShort(c) =>
            /\ \A a \in stockAllocations :
                  \A k \in 1..Len(calls[c].allocations) :
                      a.id # calls[c].allocations[k]
            /\ dealerStocks = calls[c].before.dealerStocks

\* C4: an allocate call that cannot be fully satisfied ends with the
\* insufficient-stock error, and reports strips - remainingToAllocate, which is
\* the total availableStrips of the dealer's lots for the product before the call.
C4_ShortfallReported ==
    \A c \in Calls :
        AllocateShort(c) =>
            /\ calls[c].res.status = 400
            /\ calls[c].res.error = "insufficient"
            /\ calls[c].res.available
                  = calls[c].strips - calls[c].remainingToAllocate
            /\ calls[c].res.available = SumAvailable(LotsBefore(calls[c], 1))

\* the lots whose sourceRequest is the request id
LotsOfRequest(id) == {k \in 1..Len(dealerStocks) : dealerStocks[k].sourceRequest = id}

RECURSIVE SumTotal(_)
SumTotal(K) ==
    IF K = {} THEN 0
    ELSE LET k == CHOOSE j \in K : TRUE
         IN  dealerStocks[k].totalStrips + SumTotal(K \ {k})

\* an approve call that has sent the success response
ApproveSucceeded(c) == At(c, "approve", "done") /\ calls[c].res.status = 200

\* C5: after a successful approve of a request with quantity q on product P (calls
\* running one after the other), P's stock is q less than before the call and not
\* negative, the request is approved, and the lots are those of before plus
\* exactly one new lot of the requesting dealer and P with totalStrips = q,
\* allocatedStrips = 0, availableStrips = q and sourceRequest the request.
C5_ApproveEffect ==
    \A c \in Calls :
        ApproveSucceeded(c) =>
            LET id == calls[c].id
                r == calls[c].before.requests[id]
                n == Len(calls[c].before.dealerStocks)
            IN  /\ stock = [calls[c].before.stock EXCEPT ![r.product] = @ - r.strips]
                /\ stock[r.product] >= 0
                /\ requests[id].status = "approved"
                /\ Len(dealerStocks) = n + 1
                /\ SubSeq(dealerStocks, 1, n) = calls[c].before.dealerStocks
                /\ dealerStocks[n + 1].dealer = r.dealer
                /\ dealerStocks[n + 1].product = r.product
                /\ dealerStocks[n + 1].totalStrips = r.strips
                /\ dealerStocks[n + 1].allocatedStrips = 0
                /\ dealerStocks[n + 1].availableStrips = r.strips
                /\ LotsOfRequest(id) = {n + 1}

\* an approve succeeded on a request of 2 strips while other lots exist
C5_Witness ==
    \E c \in Calls :
        /\ ApproveSucceeded(c)
        /\ calls[c].request.strips = 2
        /\ Len(calls[c].before.dealerStocks) >= 1

\* C6: of two approve calls on the same request whose steps interleave, at most
\* one succeeds, and the lots whose sourceRequest is the request hold at most
\* the request's quantity in total.
C6_ApproveOnce ==
    /\ \A c, d \in Calls :
          (c # d /\ ApproveSucceeded(c) /\ ApproveSucceeded(d))
              => calls[c].id # calls[d].id
    /\ \A id \in 1..Len(requests) :
          SumTotal(LotsOfRequest(id)) <= requests[id].strips

Max(a, b) == IF a > b THEN a ELSE b

\* C7: when two interleaved approve calls on distinct requests for the same product
\* have both succeeded, the two quantities together do not exceed the stock held
\* before the calls, and the stock is that stock minus both quantities.
C7_NoOverdraw ==
    \A c, d \in Calls :
        (/\ c # d
         /\ ApproveSucceeded(c)
         /\ ApproveSucceeded(d)
         /\ calls[c].id # calls[d].id
         /\ calls[c].request.product = calls[d].request.product)
            => LET p == calls[c].request.product
                   held == Max(calls[c].before.stock[p], calls[d].before.stock[p])
                   sum == calls[c].request.strips + calls[d].request.strips
               IN  /\ sum <= held
                   /\ stock[p] = held - sum

\* the lots and the records agree when the call arrives
LedgerConsistent(db) ==
    \A k \in 1..Len(db.dealerStocks) :
        /\ db.dealerStocks[k].allocatedStrips <= db.dealerStocks[k].totalStrips
        /\ SumStrips({a \in db.stockAllocations : a.dealerStock = k})
              = db.dealerStocks[k].allocatedStrips

\* C8: when two interleaved allocate calls of the same dealer for the same product
\* have both finished (the ledger being consistent when they arrived), every lot
\* has allocatedStrips <= totalStrips and the strips of the records referencing it
\* sum to its allocatedStrips.
C8_NoLostUpdate ==
    \A c, d \in Calls :
        (/\ c # d
         /\ AllocateDone(c)
         /\ AllocateDone(d)
         /\ calls[c].user = calls[d].user
         /\ calls[c].product = calls[d].product
         /\ LedgerConsistent(calls[c].before)
         /\ LedgerConsistent(calls[d].before))
            => LedgerConsistent(Snapshot)

\* C9: an approve call on a request whose paymentStatus is not verified fails with
\* the state error (the payment one when the request is pending), and stock, the
\* request and the lots are as before the call.
C9_ApproveNeedsVerified ==
    \A c \in Calls :
        (/\ At(c, "approve", "done")
         /\ calls[c].id \in 1..Len(calls[c].before.requests)
         /\ calls[c].before.requests[calls[c].id].paymentStatus # "verified")
            => /\ calls[c].res.status = 400
               /\ calls[c].res.error \in {"state", "payment"}
               /\ calls[c].before.requests[calls[c].id].status = "pending"
                     => calls[c].res.error = "payment"
               /\ stock = calls[c].before.stock
               /\ requests = calls[c].before.requests
               /\ dealerStocks = calls[c].before.dealerStocks

\* approve was refused for a pending request with a paid, unverified receipt
\* although the stock covers its quantity
C9_Witness ==
    \E c \in Calls :
        /\ At(c, "approve", "done")
        /\ calls[c].id \in 1..Len(requests)
        /\ requests[calls[c].id].status = "pending"
        /\ requests[calls[c].id].paymentStatus = "paid"
        /\ stock[requests[calls[c].id].product] >= requests[calls[c].id].strips
        /\ calls[c].res.error = "payment"

\* C10: in every reachable state, also when approve interleaves with
\* upload-receipt, verify-payment or reject-payment on the same request, an
\* approved request has paymentStatus verified.
C10_ApprovedIsVerified ==
    \A id \in 1..Len(requests) :
        requests[id].status = "approved" => requests[id].paymentStatus = "verified"

\* the StockAllocation document with the given _id
RecordOf(id) == CHOOSE a \in stockAllocations : a.id = id

\* the strips of the first j records an allocate call created
RECURSIVE AllocatedUpTo(_, _)
AllocatedUpTo(call, j) ==
    IF j = 0 THEN 0
    ELSE RecordOf(call.allocations[j]).strips + AllocatedUpTo(call, j - 1)

\* an allocate call that has sent the success response
AllocateSucceeded(c) == At(c, "allocate", "done") /\ calls[c].res.status = 201

\* the lots of the call's dealer and product that are older than the lot id
OlderLots(call, id) ==
    {k \in 1..Len(dealerStocks) :
        /\ k < id
        /\ dealerStocks[k].dealer = call.user
        /\ dealerStocks[k].product = call.product}

\* C11: within one allocate call (calls running one after the other) the lots are
\* consumed oldest first: when a record has just been created for a lot, every
\* older lot of the dealer and product has availableStrips = 0; the records of
\* the call reference lots of ascending age; and after a successful call every
\* lot older than the newest lot touched has availableStrips = 0.
C11_OldestFirst ==
    \A c \in Calls :
        /\ At(c, "allocate", "saveStock") =>
              \A k \in OlderLots(calls[c], calls[c].docs[calls[c].i].id) :
                  dealerStocks[k].availableStrips = 0
        /\ AllocateSucceeded(c) =>
              LET call == calls[c]
                  n == Len(call.allocations)
              IN  /\ \A j \in 1..(n - 1) :
                        RecordOf(call.allocations[j]).dealerStock
                            < RecordOf(call.allocations[j + 1]).dealerStock
                  /\ \A k \in OlderLots(call, RecordOf(call.allocations[n]).dealerStock) :
                        dealerStocks[k].availableStrips = 0

\* a successful call took 1 strip from the oldest lot and 1 from the next,
\* which keeps strips available
C11_Witness ==
    \E c \in Calls :
        /\ AllocateSucceeded(c)
        /\ Len(calls[c].allocations) = 2
        /\ RecordOf(calls[c].allocations[1]).strips = 1
        /\ RecordOf(calls[c].allocations[2]).strips = 1
        /\ dealerStocks[RecordOf(calls[c].allocations[2]).dealerStock].availableStrips > 0

\* C12: when an allocate call succeeds (calls running one after the other), each
\* record it created has strips = min(availableStrips of its lot when visited,
\* quantity still remaining), the records sum to the quantity asked, the dealer's
\* available strips of the product are less by exactly that quantity, and the
\* response reports totalAllocated = quantity.
C12_SuccessEffect ==
    \A c \in Calls :
        AllocateSucceeded(c) =>
            LET call == calls[c]
                n == Len(call.allocations)
            IN  /\ \A j \in 1..n :
                      LET rec == RecordOf(call.allocations[j])
                      IN  rec.strips =
                             Min(call.before.dealerStocks[rec.dealerStock].availableStrips,
                                 call.strips - AllocatedUpTo(call, j - 1))
                /\ AllocatedUpTo(call, n) = call.strips
                /\ SumAvailable(StocksOf(call.user, call.product, 1))
                      = SumAvailable(LotsBefore(call, 1)) - call.strips
                /\ call.res.totalAllocated = call.strips

\* a successful call of 3 strips spanning two lots
C12_Witness ==
    \E c \in Calls :
        /\ AllocateSucceeded(c)
        /\ calls[c].strips = 3
        /\ Len(calls[c].allocations) = 2

\* C13: a request's status changes only from pending to approved or from pending
\* to cancelled, also when approve and cancel on the same request interleave.
C13_StatusTerminal ==
    [][\A id \in 1..Len(requests) :
          requests'[id].status # requests[id].status
              => /\ requests[id].status = "pending"
                 /\ requests'[id].status \in {"approved", "cancelled"}]_vars

\* C14: every change of a request's paymentStatus is pending -> paid,
\* rejected -> paid, paid -> verified or paid -> rejected (a verified payment is
\* never moved back to paid).
C14_PaymentTransitions ==
    [][\A id \in 1..Len(requests) :
          requests'[id].paymentStatus # requests[id].paymentStatus
              => <<requests[id].paymentStatus, requests'[id].paymentStatus>>
                    \in {<<"pending", "paid">>, <<"rejected", "paid">>,
                         <<"paid", "verified">>, <<"paid", "rejected">>}]_vars

\* C15: once a request's status is approved or cancelled, no operation changes
\* the request (its paymentStatus and receipt reference among its fields).
C15_TerminalImmutable ==
    [][\A id \in 1..Len(requests) :
          requests[id].status \in {"approved", "cancelled"}
              => requests'[id] = requests[id]]_vars

\* a call on an existing request that has sent its response
DoneOn(c, op) ==
    /\ At(c, op, "done")
    /\ calls[c].id \in 1..Len(calls[c].before.requests)

\* C16: verify-payment and reject-payment succeed exactly when the request's
\* paymentStatus is paid, setting it to verified and rejected (reject also clears
\* the receipt); in any other paymentStatus they fail with the state error and
\* leave the request unchanged.
C16_VerifyRejectNeedPaid ==
    \A c \in Calls :
        (DoneOn(c, "verify") \/ DoneOn(c, "reject")) =>
            LET id == calls[c].id
                r == calls[c].before.requests[id]
            IN  IF r.paymentStatus = "paid"
                THEN /\ calls[c].res.status = 200
                     /\ requests = [calls[c].before.requests EXCEPT
                           ![id] = IF calls[c].op = "verify"
                                   THEN [r EXCEPT !.paymentStatus = "verified"]
                                   ELSE [r EXCEPT !.paymentStatus = "rejected",
                                                  !.receiptImage = "null"]]
                ELSE /\ calls[c].res.status = 400
                     /\ calls[c].res.error = "state"
                     /\ requests = calls[c].before.requests

\* verify-payment was refused on a request whose payment is already verified
C16_Witness ==
    \E c \in Calls :
        /\ DoneOn(c, "verify")
        /\ calls[c].before.requests[calls[c].id].paymentStatus = "verified"
        /\ calls[c].res.error = "state"

\* C17: cancel on a pending request sets status to cancelled and changes neither
\* the stock nor the lots; cancel on an approved or cancelled request fails with
\* the state error and changes nothing.
C17_CancelFrame ==
    \A c \in Calls :
        DoneOn(c, "cancel") =>
            LET id == calls[c].id
                r == calls[c].before.requests[id]
            IN  /\ stock = calls[c].before.stock
                /\ dealerStocks = calls[c].before.dealerStocks
                /\ stockAllocations = calls[c].before.stockAllocations
                /\ IF r.status = "pending"
                   THEN /\ calls[c].res.status = 200
                        /\ requests = [calls[c].before.requests EXCEPT
                                          ![id].status = "cancelled"]
                   ELSE /\ calls[c].res.status = 400
                        /\ calls[c].res.error = "state"
                        /\ requests = calls[c].before.requests

\* a pending request was cancelled while the dealer holds a lot from an earlier
\* approval
C17_Witness ==
    \E c \in Calls :
        /\ DoneOn(c, "cancel")
        /\ calls[c].res.status = 200
        /\ Len(dealerStocks) >= 1

\* C19: submit leaves the stock and the lots unchanged; it creates a request with
\* status pending and paymentStatus pending, unless quantity < 1, the product does
\* not exist or the stock is less than the quantity, when it fails and creates
\* no request.
C19_Submit ==
    \A c \in Calls :
        At(c, "submit", "done") =>
            LET call == calls[c]
            IN  /\ stock = call.before.stock
                /\ dealerStocks = call.before.dealerStocks
                /\ stockAllocations = call.before.stockAllocations
                /\ IF call.strips < 1
                   THEN /\ call.res = Respond(400, "validation")
                        /\ requests = call.before.requests
                   ELSE IF call.product \notin Products
                   THEN /\ call.res = Respond(404, "notfound")
                        /\ requests = call.before.requests
                   ELSE IF call.before.stock[call.product] < call.strips
                   THEN /\ call.res = Respond(400, "insufficient")
                        /\ requests = call.before.requests
                   ELSE /\ call.res.status = 201
                        /\ requests = Append(call.before.requests,
                                             NewRequest(call.user, call.product,
                                                        call.strips))
                        /\ requests[Len(requests)].status = "pending"
                        /\ requests[Len(requests)].paymentStatus = "pending"

\* submit was refused because earlier approvals left less stock than the quantity
C19_Witness ==
    \E c \in Calls :
        /\ At(c, "submit", "done")
        /\ calls[c].res.error = "insufficient"
        /\ calls[c].strips >= 1
        /\ stock[calls[c].product] < calls[c].strips

\* C20: approve on a pending request with verified payment whose product's stock
\* is less than the quantity fails with the insufficient-stock error (not the
\* payment one) and leaves the stock, the requests and the lots unchanged.
C20_ApproveInsufficient ==
    \A c \in Calls :
        (/\ DoneOn(c, "approve")
         /\ calls[c].before.requests[calls[c].id].status = "pending"
         /\ calls[c].before.requests[calls[c].id].paymentStatus = "verified"
         /\ calls[c].before.stock[calls[c].before.requests[calls[c].id].product]
               < calls[c].before.requests[calls[c].id].strips)
            => /\ calls[c].res.status = 400
               /\ calls[c].res.error = "insufficient"
               /\ calls[c].res.error # "payment"
               /\ stock = calls[c].before.stock
               /\ requests = calls[c].before.requests
               /\ dealerStocks = calls[c].before.dealerStocks

\* approve was refused for a verified pending request submitted when the stock
\* covered it, after another approval consumed the stock
C20_Witness ==
    \E c \in Calls :
        /\ DoneOn(c, "approve")
        /\ requests[calls[c].id].status = "pending"
        /\ requests[calls[c].id].paymentStatus = "verified"
        /\ stock[requests[calls[c].id].product] < requests[calls[c].id].strips
        /\ calls[c].res.error = "insufficient"
        /\ \E k \in 1..Len(dealerStocks) : dealerStocks[k].sourceRequest # calls[c].id

\* C18: from a paid pending request of quantity q and a given stock, every
\* sequence of reject-payment, upload-receipt, verify-payment and approve calls
\* that ends in a successful approve (the direct verify, approve as well as
\* reject, upload, verify, approve) reaches the same end state: status approved,
\* paymentStatus verified, the receipt stored, stock less by q, and one lot with
\* totalStrips = q and allocatedStrips = 0.
C18_RoundTrip ==
    \A c \in Calls :
        ApproveSucceeded(c) =>
            LET q == calls[c].before.requests[1].strips
            IN  /\ requests = <<[NewRequest("d1", "p1", q) EXCEPT
                                   !.status = "approved",
                                   !.paymentStatus = "verified",
                                   !.receiptImage = "url"]>>
                /\ stock = [p \in Products |-> MaxStock - q]
                /\ dealerStocks = <<NewStock(1, "d1", "p1", q, 1)>>
                /\ stockAllocations = {}

\* the approve succeeded after the paid receipt had been rejected (and so
\* uploaded and verified again)
C18_Witness ==
    \E c, d \in Calls :
        /\ ApproveSucceeded(c)
        /\ At(d, "reject", "done")
        /\ calls[d].res.status = 200
        /\ calls[d].id = calls[c].id
        /\ calls[d].before.requests[calls[d].id].paymentStatus = "paid"
        /\ calls[d].before.requests[calls[d].id].status = "pending"

\* C21: the approve sequence leaves no partially applied state, also when one of
\* its steps fails: after an approve call has ended it is not the case that the
\* stock was decremented while the request is still pending, nor that the
\* request is approved while no lot exists for it.
C21_ApproveAtomic ==
    \A c \in Calls :
        DoneOn(c, "approve") =>
            LET id == calls[c].id
                p == requests[id].product
            IN  /\ ~ (/\ stock[p] < calls[c].before.stock[p]
                      /\ requests[id].status = "pending")
                /\ ~ (/\ requests[id].status = "approved"
                      /\ LotsOfRequest(id) = {})

\* C22: an approve call that finds a lot already opened for its request fails and
\* leaves that lot unchanged (a repeated approval adds no units to an existing
\* lot).
C22_OpenLotOnce ==
    [][\A c \in Calls :
          (/\ At(c, "approve", "saveStock")
           /\ calls[c].dealerStock # NoStock
           /\ calls'[c].pc = "done")
              => /\ calls'[c].res.status # 200
                 /\ dealerStocks' = dealerStocks]_vars

\* C23: whenever no handler is between two awaits, there is exactly one lot per
\* approved request and none for any other request, and each lot's totalStrips
\* is its source request's quantity (lots are never merged).
C23_OneLotPerApproval ==
    Quiet =>
        /\ \A id \in 1..Len(requests) :
              IF requests[id].status = "approved"
              THEN Cardinality(LotsOfRequest(id)) = 1
              ELSE LotsOfRequest(id) = {}
        /\ \A k \in 1..Len(dealerStocks) :
              /\ dealerStocks[k].sourceRequest \in 1..Len(requests)
              /\ dealerStocks[k].totalStrips
                    = requests[dealerStocks[k].sourceRequest].strips

\* the strips of the approved requests for product p among the first k requests
RECURSIVE ApprovedStrips(_, _)
ApprovedStrips(p, k) ==
    IF k = 0 THEN 0
    ELSE (IF requests[k].product = p /\ requests[k].status = "approved"
          THEN requests[k].strips ELSE 0) + ApprovedStrips(p, k - 1)

\* C28: in every reachable state, also when approve and cancel on the same
\* request interleave, a lot exists only for an approved request, and (no handler
\* being between two awaits) the stock was decremented only for approved
\* requests: a cancelled request has no lot and consumed no stock.
C28_LotOnlyIfApproved ==
    /\ \A k \in 1..Len(dealerStocks) :
          requests[dealerStocks[k].sourceRequest].status = "approved"
    /\ Quiet => \A p \in Products :
                   stock[p] >= MaxStock - ApprovedStrips(p, Len(requests))

\* the strips of product p that approve handlers in flight (among the first c
\* slots) have taken from the stock without having saved their request yet
RECURSIVE TakenInFlight(_, _)
TakenInFlight(p, c) ==
    IF c = 0 THEN 0
    ELSE (IF At(c, "approve", "saveRequest") /\ calls[c].request.product = p
          THEN calls[c].request.strips ELSE 0) + TakenInFlight(p, c - 1)

WrittenLot(call) ==
    IF call.pc = "saveStock" THEN call.docs[call.i]
    ELSE call.docs[call.updatedStocks[call.i]]

\* the allocatedStrips it is about to save
WrittenAllocated(call) ==
    IF call.pc = "saveStock"
    THEN WrittenLot(call).allocatedStrips
            + Min(WrittenLot(call).availableStrips, call.remainingToAllocate)
    ELSE WrittenLot(call).allocatedStrips
            - RollbackAmount(call, call.updatedStocks[call.i])

\* C25: a lot write, forward or rollback, whose allocatedStrips would be < 0 or
\* > totalStrips is refused with an error and nothing is persisted; any other
\* write persists exactly the value computed (no clamping).
C25_OutOfRangeRejected ==
    [][\A c \in Calls :
          (/\ At(c, "allocate", "saveStock") \/ At(c, "allocate", "rollbackSave")
           /\ calls'[c] # calls[c])
              => LET lot == WrittenLot(calls[c])
                     a == WrittenAllocated(calls[c])
                 IN  IF a < 0 \/ a > lot.totalStrips
                     THEN /\ dealerStocks' = dealerStocks
                          /\ calls'[c].pc = "done"
                          /\ calls'[c].res.status = 500
                     ELSE dealerStocks'[lot.id].allocatedStrips = a]_vars

\* a rollback write of allocatedStrips = -1 was refused: the handler ended with
\* the error and the lot kept its value
C25_Witness ==
    \E c \in Calls :
        /\ At(c, "allocate", "done")
        /\ calls[c].res.status = 500
        /\ \E k \in 1..Len(calls[c].docs) :
              /\ calls[c].docs[k].allocatedStrips < 0
              /\ dealerStocks[calls[c].docs[k].id].allocatedStrips >= 0

AllocateInvalid(call) ==
    \/ call.strips < 1
    \/ SalesmanCreatedBy[call.salesman] # call.user
    \/ call.product \notin Products

\* C30: every StockAllocation record has strips >= 1, references a lot of its own
\* dealer and product, and names a salesman created by that dealer; an allocate
\* call with quantity < 1, an unknown product or a salesman of another dealer is
\* rejected, creates no record and changes no lot.
C30_RecordsValid ==
    /\ \A a \in stockAllocations :
          /\ a.strips >= 1
          /\ a.dealerStock \in 1..Len(dealerStocks)
          /\ dealerStocks[a.dealerStock].dealer = a.dealer
          /\ dealerStocks[a.dealerStock].product = a.product
          /\ SalesmanCreatedBy[a.salesman] = a.dealer
    /\ \A c \in Calls :
          (calls[c].op = "allocate" /\ AllocateInvalid(calls[c])) =>
              /\ calls[c].pc = "done"
              /\ calls[c].res.status \in {400, 404}
              /\ calls[c].res.error \in {"validation", "salesman", "notfound"}
              /\ stockAllocations = calls[c].before.stockAllocations
              /\ dealerStocks = calls[c].before.dealerStocks

\* an allocate call naming another dealer's salesman was rejected while the
\* dealer holds stock and records exist
C30_Witness ==
    \E c \in Calls :
        /\ At(c, "allocate", "done")
        /\ calls[c].res.error = "salesman"
        /\ calls[c].strips >= 1
        /\ stockAllocations # {}
        /\ SumAvailable(StocksOf(calls[c].user, calls[c].product, 1)) >= 1

\* the records added or removed by a step
ChangedRecords ==
    (stockAllocations' \ stockAllocations) \cup (stockAllocations \ stockAllocations')

C27_CycleUnbounded ==
    /\ []<>(requests[1].status = "pending" /\ requests[1].paymentStatus = "rejected")
    /\ []<>(requests[1].status = "pending" /\ requests[1].paymentStatus = "paid")

\* the payment was rejected, a receipt was uploaded again, and the payment has
\* been rejected once more
C27_Witness ==
    \E c, d \in Calls :
        /\ DoneOn(c, "upload") /\ calls[c].res.status = 200
        /\ calls[c].before.requests[1].paymentStatus = "rejected"
        /\ DoneOn(d, "reject") /\ calls[d].res.status = 200
        /\ requests[1].paymentStatus = "rejected"
====
